---- MODULE Spec2Model ----
(***************************************************************************)
(* Model of the flood-report intake application: the Input page            *)
(* (src/src/pages/Input.tsx) and the EditReportDialog component            *)
(* (src/unnamed/part_000).  Texts are sequences of character classes; the  *)
(* external services ('ocr-image', 'extract-report', the 'reports' table)  *)
(* are modelled by the calls in flight and the responses they may return.  *)
(***************************************************************************)
EXTENDS Integers, Sequences, FiniteSets, TLC

\* ------------------------------------------------------------------ bounds
MaxTyped == 1      \* longest value the user types into the textarea
MaxPaste == 3      \* longest clipboard text
MaxOcr == 2        \* longest text returned by the OCR service
MaxLen == 4        \* longest staged text the model follows
MaxReports == 2    \* most candidates in one extraction response
MaxEdits == 1      \* most form events in one dialog session

\* ------------------------------------------------------- character classes
\* "a" a letter, "SP" U+0020, "TAB" U+0009, "NL" U+000A,
\* "ZW" U+200B (zero-width, not white space), "BOM" U+FEFF (zero-width and
\* white space), "S" the whole 'no text found' sentinel string.
Chars == {"a", "SP", "TAB", "NL", "ZW", "BOM"}
ZeroWidth == {"ZW", "BOM"}
BlankChars == {"SP", "TAB", "BOM"}
WhiteSpace == {"SP", "TAB", "NL", "BOM"}
NoTextSentinel == <<"S">>

RECURSIVE SeqsUpTo(_, _)
SeqsUpTo(S, n) ==
    IF n = 0 THEN {<<>>}
    ELSE LET shorter == SeqsUpTo(S, n - 1)
         IN  shorter \cup {Append(s, c) : s \in shorter, c \in S}

\* ---------------------------------------------------------- JS string ops
RECURSIVE TrimStart(_)
TrimStart(s) ==
    IF s # <<>> /\ Head(s) \in WhiteSpace THEN TrimStart(Tail(s)) ELSE s

RECURSIVE TrimEnd(_)
TrimEnd(s) ==
    IF s # <<>> /\ s[Len(s)] \in WhiteSpace
    THEN TrimEnd(SubSeq(s, 1, Len(s) - 1)) ELSE s

Trim(s) == TrimEnd(TrimStart(s))

IsZeroWidth(c) == c \in ZeroWidth

\* The removal without the global flag: only the first match goes.
RemoveZeroWidthFirstOnly(s) ==
    IF \E i \in 1..Len(s) : IsZeroWidth(s[i])
    THEN LET i == CHOOSE k \in 1..Len(s) :
                     /\ IsZeroWidth(s[k])
                     /\ \A j \in 1..(k - 1) : ~IsZeroWidth(s[j])
         IN  SubSeq(s, 1, i - 1) \o SubSeq(s, i + 1, Len(s))
    ELSE s

RemoveZeroWidth(s) == SelectSeq(s, LAMBDA c : ~IsZeroWidth(c))

RECURSIVE NormalizeSpaces(_)
NormalizeSpaces(s) ==
    IF s = <<>> THEN <<>>
    ELSE IF Head(s) \in BlankChars
         THEN IF Len(s) > 1 /\ s[2] \in BlankChars
              THEN NormalizeSpaces(Tail(s))
              ELSE <<"SP">> \o NormalizeSpaces(Tail(s))
         ELSE <<Head(s)>> \o NormalizeSpaces(Tail(s))

\* The cleaning without the removal of zero-width characters.
cleanedTextKeepingZeroWidth(s) == Trim(NormalizeSpaces(s))

cleanedText(s) == Trim(NormalizeSpaces(RemoveZeroWidth(s)))

\* ------------------------------------------------ messages and notifications
NoError == ""
ErrNotImage == "please choose an image file only"
ErrTooLarge == "image file must not exceed 10MB"
ErrOcrFailed == "cannot read text from the image"
ErrEmptyInput == "please paste the text to process"
ErrNoData == "no data that can be extracted"
ErrGeneric == "an error occurred while processing"
RetryHint == "please try again"
ServiceMessages == {"Edge Function returned a non-2xx status code"}

NoToast == [level |-> "none", title |-> "", description |-> ""]
ToastOcrReading ==
    [level |-> "info", title |-> "reading text from the image with AI",
     description |-> "this may take a moment"]
ToastOcrSuccess ==
    [level |-> "success", title |-> "text read successfully",
     description |-> "the text was added to the box below"]
ToastOcrNoText ==
    [level |-> "warning", title |-> "no text found in the image",
     description |-> "please try an image with clearer text"]
ToastOcrError ==
    [level |-> "error", title |-> "an error occurred",
     description |-> "cannot read text from the image"]
ToastProcessError(description) ==
    [level |-> "error", title |-> "cannot process",
     description |-> description]

\* --------------------------------------------------------------- the files
MaxImageBytes == 10 * 1024 * 1024
Null == "null"
Images == {"img1"}
FileSizes == {MaxImageBytes - 1, MaxImageBytes, MaxImageBytes + 1}
Files == [isImage : BOOLEAN, size : FileSizes, image : Images]

\* ------------------------------------------------- phone formatter (utils)
\* A phone string is a sequence of chunks; "SP" and "," are the separators
\* of the comma-separated phone input.
RawPhone == <<"0811111111">>
FormattedPhone == <<"081-111-1111">>
OtherPhone == <<"0822222222">>
OtherFormatted == <<"082-222-2222">>
NotAPhone == <<"abc">>
formatPhoneNumber(p) ==
    IF p = RawPhone THEN FormattedPhone
    ELSE IF p = OtherPhone THEN OtherFormatted
    ELSE p

\* ------------------------------------------------- the service responses
NoResp == [kind |-> "pending"]
NoState == [kind |-> "none"]
TypeErrorMessage == "Cannot read properties of null"

TypedTexts == SeqsUpTo(Chars, MaxTyped)
PastedTexts == SeqsUpTo(Chars, MaxPaste)
OcrTexts == SeqsUpTo(Chars, MaxOcr)
               \cup {NoTextSentinel, <<"SP">> \o NoTextSentinel}

\* { data, error } of supabase.functions.invoke('ocr-image'): an invoke
\* error, a null body, a body without text, or a body with text.
OcrResponses ==
    {[kind |-> "error"], [kind |-> "null"], [kind |-> "notext"]}
        \cup {[kind |-> "text", text |-> t] : t \in OcrTexts}

\* Candidates returned by 'extract-report'; the phone list may be missing.
Candidates ==
    {[name |-> "A"],
     [name |-> "B", phone |-> <<RawPhone, NotAPhone>>]}
CandidateLists == SeqsUpTo(Candidates, MaxReports)

\* { data, error } of supabase.functions.invoke('extract-report').
ExtractResponses ==
    {[kind |-> "error", message |-> m] : m \in ServiceMessages}
        \cup {[kind |-> "null"]}
        \cup {[kind |-> "dataError", message |-> m] : m \in ServiceMessages}
        \cup {[kind |-> "noreports"]}
        \cup {[kind |-> "reports", reports |-> l] : l \in CandidateLists}

\* --------------------------------------------------------------- JS values
\* A number, null or NaN held by a numeric field; a list or null held by a
\* list field.  Nullable texts use Null.
Num(n) == [t |-> "num", v |-> n]
JsNull == [t |-> "null", v |-> 0]
JsNaN == [t |-> "nan", v |-> 0]
List(l) == [t |-> "list", v |-> l]
NullList == [t |-> "null", v |-> <<>>]

\* Truthiness of a numeric value and of a text.
TruthyNum(x) == x.t = "num" /\ x.v # 0
TruthyText(x) == x # Null /\ x # ""

\* parseInt / parseFloat of the texts the inputs can hold.
parseInt(text) ==
    CASE text = "1" -> Num(1)
      [] text = "2" -> Num(2)
      [] text = "3" -> Num(3)
      [] text = "4" -> Num(4)
      [] text = "5" -> Num(5)
      [] text = "-3" -> Num(-3)
      [] text = "2.5" -> Num(2)
      [] OTHER -> JsNaN

parseFloat(text) ==
    CASE text = "0" -> Num(0)
      [] text = "13" -> Num(13)
      [] text = "100" -> Num(100)
      [] text = "13abc" -> Num(13)
      [] OTHER -> JsNaN

\* String(x) of a numeric value.
String(x) ==
    CASE x.t = "null" -> "null"
      [] x.t = "nan" -> "NaN"
      [] x.v = 0 -> "0"
      [] x.v = 13 -> "13"
      [] x.v = 100 -> "100"
      [] OTHER -> "other"

\* ------------------------------------------------------- EditReportDialog
UnspecifiedName == "unspecified name"
TextFields == {"reporter_name", "status", "lastname", "address", "map_link",
               "health_condition", "help_needed", "additional_info"}
CounterFields == {"number_of_adults", "number_of_children",
                  "number_of_infants", "number_of_seniors",
                  "number_of_patients"}
CoordinateFields == {"location_lat", "location_long"}
HelpCategoryIds == {"water", "food", "other"}
UrgencyOptions == {"1", "2", "3", "4", "5"}

TextValues == {"", "edited"}
NameValues == {"", "-", "Somsri"}
CounterTexts == {"", "3", "-3", "2.5"}
CoordinateTexts == {"", "0", "13", "13abc", "abc"}
PhoneInputs ==
    {<<>>,
     <<"0811111111">>,
     <<"081-111-1111", ",", "SP", "0822222222">>,
     <<"SP", "abc", "SP", ",", ",", "SP">>}

StoredReport1 ==
    [id |-> "r1", name |-> "Somchai", lastname |-> "Jaidee",
     reporter_name |-> "", address |-> "123 Moo 5",
     phone |-> List(<<FormattedPhone>>),
     number_of_adults |-> Num(3), number_of_children |-> Num(2),
     number_of_infants |-> Num(0), number_of_seniors |-> Num(0),
     number_of_patients |-> Num(0),
     health_condition |-> "", help_needed |-> "boat",
     help_categories |-> List(<<"water">>), additional_info |-> "",
     urgency_level |-> Num(3), status |-> "pending",
     created_at |-> "t1", updated_at |-> "t2", raw_message |-> "raw text 1",
     location_lat |-> Num(13), location_long |-> Num(100),
     map_link |-> "https://maps"]

StoredReport2 ==
    [id |-> "r2", name |-> "-", lastname |-> Null,
     reporter_name |-> Null, address |-> Null,
     phone |-> NullList,
     number_of_adults |-> Num(0), number_of_children |-> Num(0),
     number_of_infants |-> JsNull, number_of_seniors |-> Num(0),
     number_of_patients |-> JsNull,
     health_condition |-> Null, help_needed |-> Null,
     help_categories |-> NullList, additional_info |-> Null,
     urgency_level |-> Num(5), status |-> "pending",
     created_at |-> "t3", updated_at |-> "t3", raw_message |-> "raw text 2",
     location_lat |-> JsNull, location_long |-> JsNull,
     map_link |-> Null]

\* The stored reports the dialog can be opened with.
Reports == {StoredReport1, StoredReport2}

DbMessages == {"permission denied for table reports"}
\* { error } of supabase.from('reports').update(...).eq('id', ...): no error,
\* or an error object that may or may not be an instance of Error.
SaveResponses ==
    {[kind |-> "ok", isError |-> FALSE, message |-> ""]}
        \cup {[kind |-> "error", isError |-> b, message |-> m] :
                 b \in BOOLEAN, m \in DbMessages}

ToastSaveSuccess ==
    [level |-> "success", title |-> "edit saved",
     description |-> "the data has been updated"]
ToastSaveError(description) ==
    [level |-> "error", title |-> "cannot edit the data",
     description |-> description]

\* ------------------------------------------------------------------- state
VARIABLES
    screen,           \* which component this instance is: "input" or "edit"
    rawMessage,       \* Input: staged text
    isProcessing,     \* Input: extraction pending
    isOcrProcessing,  \* Input: OCR pending
    error,            \* Input: error shown in the alert
    previewImage,     \* Input: preview image or Null
    isDragging,       \* Input: drag highlight
    readers,          \* Input: files a FileReader is reading
    ocrCalls,         \* Input: 'ocr-image' calls in flight
    extractCalls,     \* Input: 'extract-report' calls in flight
    location,         \* router: current path and navigation state
    toast,            \* last notification shown
    typed,            \* history: the staged text holds typed text
    before,           \* history: <<rawMessage, error, previewImage>> when
                      \* the pending operation was started, or NoState
    report,           \* Edit: the report prop
    open,             \* Edit: the open prop, owned by the parent
    formData,         \* Edit: the form
    phoneInput,       \* Edit: the comma-separated phone input
    isSaving,         \* Edit: update pending
    saveCalls,        \* Edit: 'reports' updates in flight
    successCalls,     \* Edit: number of onSuccess() calls
    edits             \* Edit: form events so far

inputVars == <<rawMessage, isProcessing, isOcrProcessing, error,
               previewImage, isDragging, readers, ocrCalls, extractCalls,
               location, toast, typed, before>>
editVars == <<report, open, formData, phoneInput, isSaving, saveCalls,
              successCalls, edits>>
vars == <<screen, inputVars, editVars>>

InputInit ==
    /\ rawMessage = <<>>
    /\ isProcessing = FALSE
    /\ isOcrProcessing = FALSE
    /\ error = NoError
    /\ previewImage = Null
    /\ isDragging = FALSE
    /\ readers = <<>>
    /\ ocrCalls = <<>>
    /\ extractCalls = <<>>
    /\ location = [path |-> "/", state |-> NoState]
    /\ toast = NoToast
    /\ typed = FALSE
    /\ before = NoState

\* report.phone?.join(', ') || ''
RECURSIVE join(_)
join(l) ==
    IF l = <<>> THEN <<>>
    ELSE IF Len(l) = 1 THEN l[1]
    ELSE l[1] \o <<",", "SP">> \o join(Tail(l))

initialPhoneInput(r) == IF r.phone.t = "list" THEN join(r.phone.v) ELSE <<>>

\* useState(report), useState(report.phone?.join(', ') || ''),
\* useState(false)
EditInit ==
    /\ formData = report
    /\ phoneInput = initialPhoneInput(report)
    /\ isSaving = FALSE
    /\ saveCalls = <<>>
    /\ successCalls = 0
    /\ edits = 0

\* One component instance: the Input page, or the dialog opened on a stored
\* report.
Init ==
    /\ screen \in {"input", "edit"}
    /\ InputInit
    /\ IF screen = "edit"
       THEN report \in Reports /\ open = TRUE
       ELSE report = StoredReport1 /\ open = FALSE
    /\ EditInit

\* The Input page is mounted and receives user events.
InputMounted == screen = "input" /\ location.path = "/"

\* disabled={isOcrProcessing || isProcessing} of the textarea, the file
\* input and the drop zone's click handler.
InputBusy == isOcrProcessing \/ isProcessing

Snapshot ==
    [rawMessage |-> rawMessage, error |-> error,
     previewImage |-> previewImage]

RemoveAt(s, i) == SubSeq(s, 1, i - 1) \o SubSeq(s, i + 1, Len(s))

\* ------------------------------------------------------- Input: OCR intake
\* processImageFile without the size check.
processImageFileNoSizeCheck(file) ==
    IF ~file.isImage
    THEN /\ error' = ErrNotImage
         /\ UNCHANGED <<isOcrProcessing, readers, before>>
    ELSE /\ error' = NoError
         /\ isOcrProcessing' = TRUE
         /\ readers' = Append(readers, file)
         /\ before' = Snapshot

\* processImageFile, up to reader.readAsDataURL(file).
processImageFile(file) ==
    IF ~file.isImage
    THEN /\ error' = ErrNotImage
         /\ UNCHANGED <<isOcrProcessing, readers, before>>
    ELSE IF file.size > MaxImageBytes
    THEN /\ error' = ErrTooLarge
         /\ UNCHANGED <<isOcrProcessing, readers, before>>
    ELSE /\ error' = NoError
         /\ isOcrProcessing' = TRUE
         /\ readers' = Append(readers, file)
         /\ before' = Snapshot

\* onChange of the hidden file input (disabled while an operation runs).
handleImageUpload(file) ==
    /\ InputMounted
    /\ ~InputBusy
    /\ processImageFile(file)
    /\ UNCHANGED <<screen, editVars, typed,
                   rawMessage, isProcessing, previewImage, isDragging,
                   ocrCalls, extractCalls, location, toast>>

handleDragOver ==
    /\ InputMounted
    /\ IF ~isOcrProcessing /\ ~isProcessing
       THEN isDragging' = TRUE
       ELSE UNCHANGED isDragging
    /\ UNCHANGED <<screen, editVars, typed,
                   rawMessage, isProcessing, isOcrProcessing, error,
                   previewImage, readers, ocrCalls, extractCalls, location,
                   toast,
                   before>>

handleDragLeave ==
    /\ InputMounted
    /\ isDragging' = FALSE
    /\ UNCHANGED <<screen, editVars, typed,
                   rawMessage, isProcessing, isOcrProcessing, error,
                   previewImage, readers, ocrCalls, extractCalls, location,
                   toast,
                   before>>

\* onDrop without the check of the loading flags.
handleDropUngated(hasFile, file) ==
    /\ InputMounted
    /\ isDragging' = FALSE
    /\ IF hasFile
       THEN processImageFile(file)
       ELSE UNCHANGED <<error, isOcrProcessing, readers, before>>
    /\ UNCHANGED <<screen, editVars, typed,
                   rawMessage, isProcessing, previewImage, ocrCalls,
                   extractCalls, location, toast>>

\* onDrop; hasFile is e.dataTransfer.files?.[0] being present.
handleDrop(hasFile, file) ==
    /\ InputMounted
    /\ isDragging' = FALSE
    /\ IF isOcrProcessing \/ isProcessing
       THEN UNCHANGED <<error, isOcrProcessing, readers, before>>
       ELSE IF hasFile
            THEN processImageFile(file)
            ELSE UNCHANGED <<error, isOcrProcessing, readers, before>>
    /\ UNCHANGED <<screen, editVars, typed,
                   rawMessage, isProcessing, previewImage, ocrCalls,
                   extractCalls, location, toast>>

\* onPaste of the textarea with an image item in the clipboard.
pasteImage(file) ==
    /\ InputMounted
    /\ ~InputBusy
    /\ file.isImage
    /\ processImageFile(file)
    /\ UNCHANGED <<screen, editVars, typed,
                   rawMessage, isProcessing, previewImage, isDragging,
                   ocrCalls, extractCalls, location, toast>>

clearPreviewImage ==
    /\ InputMounted
    /\ previewImage # Null
    /\ previewImage' = Null
    /\ UNCHANGED <<screen, editVars, typed,
                   rawMessage, isProcessing, isOcrProcessing, error,
                   isDragging, readers, ocrCalls, extractCalls, location,
                   toast,
                   before>>

\* reader.onload, up to the await of supabase.functions.invoke('ocr-image').
readerOnload ==
    /\ screen = "input"
    /\ \E i \in 1..Len(readers) :
          /\ previewImage' = readers[i].image
          /\ toast' = ToastOcrReading
          /\ ocrCalls' = Append(ocrCalls,
                                [image |-> readers[i].image, resp |-> NoResp])
          /\ readers' = RemoveAt(readers, i)
    /\ UNCHANGED <<screen, editVars, typed,
                   rawMessage, isProcessing, isOcrProcessing, error,
                   isDragging, extractCalls, location, before>>

\* The FileReader fails to read the file: it fires 'error', never 'load',
\* and no handler is registered for it.
readerError ==
    /\ screen = "input"
    /\ \E i \in 1..Len(readers) : readers' = RemoveAt(readers, i)
    /\ UNCHANGED <<screen, editVars, typed,
                   rawMessage, isProcessing, isOcrProcessing, error,
                   previewImage, isDragging, ocrCalls, extractCalls, location,
                   toast,
                   before>>

\* Legibility without the comparison with the sentinel.
LegibleIgnoringSentinel(r) ==
    /\ r.kind = "text"
    /\ Trim(r.text) # <<>>

\* data.text?.trim() is legible: non-empty and not the sentinel.
Legible(r) ==
    /\ r.kind = "text"
    /\ Trim(r.text) # <<>>
    /\ Trim(r.text) # NoTextSentinel

\* The OCR text replacing the staged text.
appendOcrTextReplacing(prev, cleaned) == cleaned

\* setRawMessage((prev) => prev ? prev + "\n\n" + cleanedText : cleanedText)
appendOcrText(prev, cleaned) ==
    IF prev # <<>> THEN prev \o <<"NL", "NL">> \o cleaned ELSE cleaned

\* The 'ocr-image' function answers a call in flight.
ocrReply(r) ==
    /\ screen = "input"
    /\ Legible(r) =>
          Len(appendOcrText(rawMessage, cleanedText(Trim(r.text)))) <= MaxLen
    /\ \E i \in 1..Len(ocrCalls) :
          /\ ocrCalls[i].resp = NoResp
          /\ ocrCalls' = [ocrCalls EXCEPT ![i].resp = r]
    /\ UNCHANGED <<screen, editVars, typed,
                   rawMessage, isProcessing, isOcrProcessing, error,
                   previewImage, isDragging, readers, extractCalls, location,
                   toast,
                   before>>

\* reader.onload after the await: try / catch / finally.
ocrContinue ==
    /\ screen = "input"
    /\ \E i \in 1..Len(ocrCalls) :
          LET r == ocrCalls[i].resp IN
          /\ r # NoResp
          /\ ocrCalls' = RemoveAt(ocrCalls, i)
          /\ IF r.kind \in {"error", "null"}
             THEN /\ error' = ErrOcrFailed
                  /\ toast' = ToastOcrError
                  /\ UNCHANGED rawMessage
             ELSE IF Legible(r)
             THEN /\ rawMessage' =
                        appendOcrText(rawMessage, cleanedText(Trim(r.text)))
                  /\ toast' = ToastOcrSuccess
                  /\ UNCHANGED error
             ELSE /\ toast' = ToastOcrNoText
                  /\ UNCHANGED <<rawMessage, error>>
          /\ isOcrProcessing' = FALSE
          /\ before' = NoState
    /\ UNCHANGED <<screen, editVars, typed,
                   isProcessing, previewImage, isDragging, readers,
                   extractCalls, location>>

\* ------------------------------------------------- Input: the staged text
\* onChange of the textarea (disabled while an operation runs).
textareaOnChange(value) ==
    /\ InputMounted
    /\ ~InputBusy
    /\ rawMessage' = value
    /\ error' = NoError
    /\ typed' = (value # <<>>)
    /\ UNCHANGED <<screen, editVars,
                   isProcessing, isOcrProcessing, previewImage,
                   isDragging, readers, ocrCalls, extractCalls, location,
                   toast,
                   before>>

\* setRawMessage((prev) => (prev ? prev + cleanedText : cleanedText))
appendPastedText(prev, cleaned) ==
    IF prev # <<>> THEN prev \o cleaned ELSE cleaned

\* onPaste of the textarea with no image item in the clipboard.
textareaOnPaste(pastedText) ==
    /\ InputMounted
    /\ ~InputBusy
    /\ Len(appendPastedText(rawMessage, cleanedText(pastedText))) <= MaxLen
    /\ rawMessage' = appendPastedText(rawMessage, cleanedText(pastedText))
    /\ error' = NoError
    /\ UNCHANGED <<screen, editVars, typed,
                   isProcessing, isOcrProcessing, previewImage,
                   isDragging, readers, ocrCalls, extractCalls, location,
                   toast,
                   before>>

\* ----------------------------------------------------- Input: extraction
\* disabled={isProcessing || isOcrProcessing || !rawMessage.trim()} of the
\* process button.
ProcessButtonEnabled ==
    ~(isProcessing \/ isOcrProcessing \/ Trim(rawMessage) = <<>>)

\* handleProcess, up to the await of invoke('extract-report').
handleProcess ==
    /\ InputMounted
    /\ ProcessButtonEnabled
    /\ IF Trim(rawMessage) = <<>>
       THEN /\ error' = ErrEmptyInput
            /\ UNCHANGED <<isProcessing, extractCalls, before>>
       ELSE /\ isProcessing' = TRUE
            /\ before' = Snapshot
            /\ error' = NoError
            /\ extractCalls' =
                  Append(extractCalls,
                         [rawMessage |-> Trim(rawMessage), resp |-> NoResp])
    /\ UNCHANGED <<screen, editVars, typed,
                   rawMessage, isOcrProcessing, previewImage,
                   isDragging, readers, ocrCalls, location, toast>>

\* The 'extract-report' function answers a call in flight.
extractReply(r) ==
    /\ screen = "input"
    /\ \E i \in 1..Len(extractCalls) :
          /\ extractCalls[i].resp = NoResp
          /\ extractCalls' = [extractCalls EXCEPT ![i].resp = r]
    /\ UNCHANGED <<screen, editVars, typed,
                   rawMessage, isProcessing, isOcrProcessing, error,
                   previewImage, isDragging, readers, ocrCalls, location,
                   toast,
                   before>>

\* { ...report, phone: report.phone?.map(formatPhoneNumber) || [] }
formatReport(candidate) ==
    [f \in DOMAIN candidate \cup {"phone"} |->
        IF f = "phone"
        THEN IF "phone" \in DOMAIN candidate
             THEN [k \in 1..Len(candidate.phone) |->
                      formatPhoneNumber(candidate.phone[k])]
             ELSE <<>>
        ELSE candidate[f]]

formattedReports(reports) ==
    [k \in 1..Len(reports) |-> formatReport(reports[k])]

\* The error thrown inside the try block of handleProcess, if any.
Thrown(r) ==
    IF r.kind \in {"error", "dataError"}
    THEN [isError |-> TRUE, message |-> r.message]
    ELSE IF r.kind = "null"
    THEN [isError |-> TRUE, message |-> TypeErrorMessage]
    ELSE IF r.kind = "noreports" \/ Len(r.reports) = 0
    THEN [isError |-> TRUE, message |-> ErrNoData]
    ELSE [isError |-> FALSE, message |-> NoError]

\* The catch block showing its fixed message whatever was thrown.
catchMessageFixed(err, fallback) == fallback

\* err instanceof Error ? err.message : <fallback>
catchMessage(err, fallback) ==
    IF err.isError THEN err.message ELSE fallback

\* The routing with the selection page for any non-empty list.
RouteAlwaysSelecting(r) ==
    IF Len(r.reports) >= 1
    THEN [path |-> "/select",
          state |-> [reports |-> formattedReports(r.reports)]]
    ELSE [path |-> "/review",
          state |-> [extractedData |-> formattedReports(r.reports)[1]]]

\* navigate(...) of handleProcess for a response that did not throw.
Route(r) ==
    IF Len(r.reports) > 1
    THEN [path |-> "/select",
          state |-> [reports |-> formattedReports(r.reports)]]
    ELSE [path |-> "/review",
          state |-> [extractedData |-> formattedReports(r.reports)[1]]]

\* What the catch block shows for a thrown error: the error state and
\* the notification.
Outcome(err) ==
    [error |-> catchMessage(err, ErrGeneric),
     toast |-> ToastProcessError(catchMessage(err, RetryHint))]

\* handleProcess after the await: try / catch / finally.
extractContinue ==
    /\ screen = "input"
    /\ \E i \in 1..Len(extractCalls) :
          LET r == extractCalls[i].resp IN
          /\ r # NoResp
          /\ extractCalls' = RemoveAt(extractCalls, i)
          /\ IF Thrown(r).isError
             THEN /\ error' = Outcome(Thrown(r)).error
                  /\ toast' = Outcome(Thrown(r)).toast
                  /\ UNCHANGED location
             ELSE /\ location' = Route(r)
                  /\ UNCHANGED <<error, toast>>
          /\ isProcessing' = FALSE
          /\ before' = NoState
    /\ UNCHANGED <<screen, editVars, typed,
                   rawMessage, isOcrProcessing, previewImage,
                   isDragging, readers, ocrCalls>>

\* ------------------------------------------------------ Edit: form events
\* The dialog is shown and receives user events.
EditMounted == screen = "edit" /\ open

inputState == <<rawMessage, isProcessing, isOcrProcessing, error,
                previewImage, isDragging, readers, ocrCalls, extractCalls,
                location, typed, before>>

\* setFormData({ ...formData, [field]: value }) of one form event.
setField(field, value) ==
    /\ EditMounted
    /\ edits < MaxEdits
    /\ edits' = edits + 1
    /\ formData' = [formData EXCEPT ![field] = value]
    /\ UNCHANGED <<screen, inputState, toast, report, open, phoneInput,
                   isSaving, saveCalls, successCalls>>

\* onChange of a text input or textarea.
textOnChange(field, value) == setField(field, value)

nameOnChange(value) == setField("name", value)

\* onChange of the phone input.
phoneOnChange(value) ==
    /\ EditMounted
    /\ edits < MaxEdits
    /\ edits' = edits + 1
    /\ phoneInput' = value
    /\ UNCHANGED <<screen, inputState, toast, report, open, formData,
                   isSaving, saveCalls, successCalls>>

\* e.target.value ? parseFloat(e.target.value) : null
coordinateValue(text) == IF text # "" THEN parseFloat(text) ELSE JsNull
coordinateOnChange(field, text) == setField(field, coordinateValue(text))

\* parseInt(e.target.value) || 0
counterValue(text) ==
    IF TruthyNum(parseInt(text)) THEN parseInt(text) ELSE Num(0)
counterOnChange(field, text) == setField(field, counterValue(text))

\* formData.help_categories || []
currentCategories(fd) ==
    IF fd.help_categories.t = "list" THEN fd.help_categories.v ELSE <<>>

Includes(l, x) == \E i \in 1..Len(l) : l[i] = x

\* The toggle appending the tag whatever the checkbox reports.
toggledCategoriesAlwaysAppending(current, id, checked) == Append(current, id)

\* checked ? [...current, category.id] : current.filter(c => c !== id)
toggledCategories(current, id, checked) ==
    IF checked THEN Append(current, id)
    ELSE SelectSeq(current, LAMBDA c : c # id)

\* onCheckedChange of a category checkbox: the box shows whether the tag is
\* in the list, and a click reports the opposite.
categoryOnCheckedChange(id) ==
    LET current == currentCategories(formData)
        checked == ~Includes(current, id)
    IN  setField("help_categories",
                 List(toggledCategories(current, id, checked)))

\* The urgency select storing the index of the option.
urgencyOnChangeIndex(option) ==
    setField("urgency_level", Num(parseInt(option).v - 1))

\* onChange of the urgency select.
urgencyOnChange(option) == setField("urgency_level", parseInt(option))

\* useEffect: the parent passes another report.
reportChanged(r) ==
    /\ EditMounted
    /\ r # report
    /\ report' = r
    /\ formData' = r
    /\ phoneInput' = initialPhoneInput(r)
    /\ UNCHANGED <<screen, inputState, toast, open, isSaving, saveCalls,
                   successCalls, edits>>

\* The cancel button (disabled while saving).
cancel ==
    /\ EditMounted
    /\ ~isSaving
    /\ open' = FALSE
    /\ UNCHANGED <<screen, inputState, toast, report, formData, phoneInput,
                   isSaving, saveCalls, successCalls, edits>>

\* ------------------------------------------------------------- Edit: save
\* phoneInput.split(',')
RECURSIVE split(_)
split(s) ==
    IF \A i \in 1..Len(s) : s[i] # ","
    THEN <<s>>
    ELSE LET k == CHOOSE i \in 1..Len(s) :
                     s[i] = "," /\ \A j \in 1..(i - 1) : s[j] # ","
         IN  <<SubSeq(s, 1, k - 1)>> \o split(SubSeq(s, k + 1, Len(s)))

\* The phone list without the pass through formatPhoneNumber.
phonesUnformatted(input) ==
    LET entries == split(input)
        trimmed == [k \in 1..Len(entries) |-> Trim(entries[k])]
    IN  SelectSeq(trimmed, LAMBDA p : Len(p) > 0)

\* .split(',').map(trim).filter(nonempty).map(formatPhoneNumber)
phones(input) ==
    LET entries == split(input)
        trimmed == [k \in 1..Len(entries) |-> Trim(entries[k])]
        kept == SelectSeq(trimmed, LAMBDA p : Len(p) > 0)
    IN  [k \in 1..Len(kept) |-> formatPhoneNumber(kept[k])]

\* formData.location_lat ? parseFloat(String(formData.location_lat)) : null
savedCoordinate(x) == IF TruthyNum(x) THEN parseFloat(String(x)) ELSE JsNull

\* formData.number_of_adults || 0
savedCounter(x) == IF TruthyNum(x) THEN x ELSE Num(0)

savedName(name) ==
    IF TruthyText(name) /\ name # "-" THEN name ELSE UnspecifiedName

\* The update built by spreading the whole form.
dataToUpdateSpreadingForm(fd, input) == [fd EXCEPT !.phone = phones(input)]

dataToUpdate(fd, input) ==
    [name |-> savedName(fd.name),
     lastname |-> fd.lastname,
     reporter_name |-> fd.reporter_name,
     address |-> fd.address,
     phone |-> phones(input),
     location_lat |-> savedCoordinate(fd.location_lat),
     location_long |-> savedCoordinate(fd.location_long),
     map_link |-> IF TruthyText(fd.map_link) THEN fd.map_link ELSE Null,
     number_of_adults |-> savedCounter(fd.number_of_adults),
     number_of_children |-> savedCounter(fd.number_of_children),
     number_of_infants |-> savedCounter(fd.number_of_infants),
     number_of_seniors |-> savedCounter(fd.number_of_seniors),
     number_of_patients |-> savedCounter(fd.number_of_patients),
     health_condition |-> fd.health_condition,
     help_needed |-> fd.help_needed,
     help_categories |-> currentCategories(fd),
     additional_info |-> fd.additional_info,
     urgency_level |-> fd.urgency_level,
     status |-> fd.status]

\* disabled={isSaving} of the save button.
SaveButtonEnabled == ~isSaving

\* handleSave, up to the await of the update.
handleSave ==
    /\ EditMounted
    /\ SaveButtonEnabled
    /\ isSaving' = TRUE
    /\ saveCalls' = Append(saveCalls,
                           [id |-> report.id,
                            data |-> dataToUpdate(formData, phoneInput),
                            resp |-> NoResp])
    /\ UNCHANGED <<screen, inputState, toast, report, open, formData,
                   phoneInput, successCalls, edits>>

\* The 'reports' table answers an update in flight.
saveReply(r) ==
    /\ screen = "edit"
    /\ \E i \in 1..Len(saveCalls) :
          /\ saveCalls[i].resp = NoResp
          /\ saveCalls' = [saveCalls EXCEPT ![i].resp = r]
    /\ UNCHANGED <<screen, inputState, toast, report, open, formData,
                   phoneInput, isSaving, successCalls, edits>>

\* handleSave after the await: try / catch / finally.
saveContinue ==
    /\ screen = "edit"
    /\ \E i \in 1..Len(saveCalls) :
          LET r == saveCalls[i].resp IN
          /\ r # NoResp
          /\ saveCalls' = RemoveAt(saveCalls, i)
          /\ IF r.kind = "error"
             THEN /\ toast' = ToastSaveError(catchMessage(r, RetryHint))
                  /\ UNCHANGED <<successCalls, open>>
             ELSE /\ toast' = ToastSaveSuccess
                  /\ successCalls' = successCalls + 1
                  /\ open' = FALSE
          /\ isSaving' = FALSE
    /\ UNCHANGED <<screen, inputState, report, formData, phoneInput, edits>>

EditNext ==
    \/ \E f \in TextFields, v \in TextValues : textOnChange(f, v)
    \/ \E v \in NameValues : nameOnChange(v)
    \/ \E v \in PhoneInputs : phoneOnChange(v)
    \/ \E f \in CoordinateFields, t \in CoordinateTexts :
          coordinateOnChange(f, t)
    \/ \E f \in CounterFields, t \in CounterTexts : counterOnChange(f, t)
    \/ \E id \in HelpCategoryIds : categoryOnCheckedChange(id)
    \/ \E o \in UrgencyOptions : urgencyOnChange(o)
    \/ \E r \in Reports : reportChanged(r)
    \/ cancel
    \/ handleSave
    \/ \E r \in SaveResponses : saveReply(r)
    \/ saveContinue

\* ------------------------------------------------------- the specification
InputNext ==
    \/ \E file \in Files : handleImageUpload(file)
    \/ handleDragOver
    \/ handleDragLeave
    \/ \E hasFile \in BOOLEAN, file \in Files : handleDrop(hasFile, file)
    \/ \E file \in Files : pasteImage(file)
    \/ clearPreviewImage
    \/ readerOnload
    \/ readerError
    \/ \E r \in OcrResponses : ocrReply(r)
    \/ ocrContinue
    \/ \E value \in TypedTexts : textareaOnChange(value)
    \/ \E pastedText \in PastedTexts : textareaOnPaste(pastedText)
    \/ handleProcess
    \/ \E r \in ExtractResponses : extractReply(r)
    \/ extractContinue

Next == InputNext \/ EditNext

Spec == Init /\ [][Next]_vars

\* ------------------------------------------------------ steps and outcomes
\* Operations pending on the Input page: files being read and calls in flight.
InputPending == Len(readers) + Len(ocrCalls) + Len(extractCalls)

\* The step in which the continuation of an 'ocr-image' call runs.
OcrCompletes == Len(ocrCalls) = 1 /\ ocrCalls' = <<>>
\* The step in which the continuation of an 'extract-report' call runs.
ExtractCompletes == Len(extractCalls) = 1 /\ extractCalls' = <<>>

OcrEmptyResult(r) ==
    \/ r.kind = "notext"
    \/ r.kind = "text" /\ Trim(r.text) \in {<<>>, NoTextSentinel}

ExtractEmptyResult(r) ==
    \/ r.kind = "noreports"
    \/ r.kind = "reports" /\ Len(r.reports) = 0

ServiceError(r) == r.kind \in {"error", "dataError"}

\* A text the normalizer leaves alone: no zero-width character, every blank
\* a single U+0020 not followed by another blank, no white space at the ends.
IsNormalized(s) ==
    /\ \A i \in 1..Len(s) : s[i] \notin ZeroWidth
    /\ \A i \in 1..Len(s) :
          s[i] \in BlankChars =>
             /\ s[i] = "SP"
             /\ i < Len(s) => s[i + 1] \notin BlankChars
    /\ s # <<>> => s[1] \notin WhiteSpace /\ s[Len(s)] \notin WhiteSpace

\* Every external call returns and every started FileReader finishes, with
\* 'load' or with 'error'; the continuation of an answered call runs.
FairSpec ==
    /\ Spec
    /\ WF_vars(readerOnload \/ readerError)
    /\ WF_vars(\E r \in OcrResponses : ocrReply(r))
    /\ WF_vars(ocrContinue)
    /\ WF_vars(\E r \in ExtractResponses : extractReply(r))
    /\ WF_vars(extractContinue)
    /\ WF_vars(\E r \in SaveResponses : saveReply(r))
    /\ WF_vars(saveContinue)

\* ------------------------------------------------------------------ claims
\* C1: on each screen at most one external operation is in flight, and no
\* trigger that arrives while an operation is pending starts another one.
C1_SingleFlight ==
    /\ [](InputPending <= 1 /\ Len(saveCalls) <= 1)
    /\ [][/\ InputBusy => InputPending' <= InputPending
          /\ isSaving => Len(saveCalls') <= Len(saveCalls)]_vars

C1_Witness ==
    /\ isOcrProcessing
    /\ Len(ocrCalls) = 1
    /\ InputPending = 1

\* C2: once a loading flag is set it is eventually reset to false, on every
\* path of the operation.
C2_FlagsEventuallyReset ==
    /\ isOcrProcessing ~> ~isOcrProcessing
    /\ isProcessing ~> ~isProcessing
    /\ isSaving ~> ~isSaving

\* C3: a successful extraction response is routed by the number of reports:
\* none is a failure without navigation, one goes to /review with that
\* report, more go to /select with all of them; exactly one outcome occurs.
C3_CardinalityRouting ==
    [][ExtractCompletes
         /\ extractCalls[1].resp.kind \in {"reports", "noreports"} =>
        LET r == extractCalls[1].resp
            n == IF r.kind = "reports" THEN Len(r.reports) ELSE 0
            failure == /\ location' = location
                       /\ error' # NoError
                       /\ toast'.level = "error"
            review == /\ location'.path = "/review"
                      /\ n >= 1
                      /\ location'.state =
                            [extractedData |-> formatReport(r.reports[1])]
            select == /\ location'.path = "/select"
                      /\ n >= 1
                      /\ location'.state =
                            [reports |-> [k \in 1..n |->
                                             formatReport(r.reports[k])]]
        IN  /\ n = 0 => failure /\ ~review /\ ~select
            /\ n = 1 => review /\ ~failure /\ ~select
            /\ n > 1 => select /\ ~failure /\ ~review]_vars

C3_Witness ==
    /\ location.path = "/select"
    /\ Len(location.state.reports) = 2
    /\ ~isProcessing

\* C4: an extraction with zero reports is shown differently from a service
\* error: the error state and the notification carry the 'no data' message
\* in the first case and never in the second.
C4_EmptyDistinctFromError ==
    [][ExtractCompletes =>
        LET r == extractCalls[1].resp
        IN  /\ ExtractEmptyResult(r) =>
                  /\ error' = ErrNoData
                  /\ toast' = ToastProcessError(ErrNoData)
            /\ ServiceError(r) =>
                  /\ error' \notin {NoError, ErrNoData}
                  /\ toast'.level = "error"
                  /\ toast'.description # ErrNoData]_vars

C4_Witness ==
    /\ error = ErrNoData
    /\ toast = ToastProcessError(ErrNoData)
    /\ ~isProcessing

\* C5: a validation failure starts nothing: no 'extract-report' call carries
\* blank text, no file that is not an image or is larger than 10 MiB is read
\* or sent, a file of exactly 10 MiB is accepted, and a step that reports a
\* validation error starts no call and sets no loading flag.
ValidationErrors == {ErrNotImage, ErrTooLarge, ErrEmptyInput}

C5_ValidationIsLocal ==
    /\ [](\A i \in 1..Len(extractCalls) :
             Trim(extractCalls[i].rawMessage) # <<>>)
    /\ [](\A i \in 1..Len(readers) :
             readers[i].isImage /\ readers[i].size <= 10 * 1024 * 1024)
    /\ [](error \in ValidationErrors => InputPending = 0 /\ ~InputBusy)
    /\ [][\A file \in Files :
            handleImageUpload(file) =>
               IF file.isImage /\ file.size <= 10 * 1024 * 1024
               THEN readers' = Append(readers, file)
               ELSE /\ error' \in ValidationErrors
                    /\ readers' = readers
                    /\ ocrCalls' = ocrCalls
                    /\ ~isOcrProcessing' /\ ~isProcessing']_vars

C5_Witness ==
    /\ error = ErrTooLarge
    /\ InputPending = 0
    /\ ~InputBusy

\* C6: a legible OCR text Y, normalized, is appended to the staged text: a
\* non-empty staged text X becomes X, a blank line, Y; an empty one becomes Y.
C6_OcrAppends ==
    [][OcrCompletes /\ Legible(ocrCalls[1].resp) =>
        LET Y == cleanedText(ocrCalls[1].resp.text)
        IN  /\ IsNormalized(Y)
            /\ rawMessage' = IF rawMessage = <<>> THEN Y
                             ELSE rawMessage \o <<"NL", "NL">> \o Y]_vars

C6_Witness ==
    /\ rawMessage = <<"a", "NL", "NL", "a">>
    /\ toast = ToastOcrSuccess
    /\ ~isOcrProcessing

\* The step that completes an operation with an empty result.
EmptyOcrCompletes == OcrCompletes /\ OcrEmptyResult(ocrCalls[1].resp)
EmptyExtractCompletes ==
    ExtractCompletes /\ ExtractEmptyResult(extractCalls[1].resp)

\* C7 (as claimed): after an empty-result outcome the staged text, the error
\* and the preview image equal what they were before the operation started.
C7_NoStateMutation ==
    [][EmptyOcrCompletes \/ EmptyExtractCompletes =>
        [rawMessage |-> rawMessage', error |-> error',
         previewImage |-> previewImage'] = before]_vars

\* C7 (amended): after an empty-result outcome the staged text equals what it
\* was before the operation started and nothing is navigated; an OCR run
\* leaves the error cleared and the uploaded image as preview (unless the
\* user closed it), an extraction leaves the 'no data' error.
C7_StagedTextKept ==
    [][/\ EmptyOcrCompletes =>
            /\ rawMessage' = before.rawMessage
            /\ location' = location
            /\ error' = NoError
            /\ previewImage' \in {ocrCalls[1].image, Null}
            /\ toast' = ToastOcrNoText
       /\ EmptyExtractCompletes =>
            /\ rawMessage' = before.rawMessage
            /\ location' = location
            /\ error' = ErrNoData
            /\ previewImage' \in {before.previewImage, Null}]_vars

C7_Witness ==
    /\ toast = ToastOcrNoText
    /\ ~isOcrProcessing
    /\ previewImage = "img1"
    /\ rawMessage # <<>>

\* C8: no update issued by handleSave carries raw_message, id, created_at or
\* updated_at, and no form event changes these fields of the form.
SystemFields == {"raw_message", "id", "created_at", "updated_at"}

C8_RawMessageWriteOnce ==
    /\ [](\A i \in 1..Len(saveCalls) :
             DOMAIN saveCalls[i].data \cap SystemFields = {})
    /\ [][report' = report =>
             \A f \in SystemFields : formData'[f] = formData[f]]_vars

C8_Witness ==
    /\ Len(saveCalls) = 1
    /\ edits > 0
    /\ formData # report

C10_UrgencyInRange ==
    \A i \in 1..Len(saveCalls) :
       /\ saveCalls[i].data.urgency_level.t = "num"
       /\ saveCalls[i].data.urgency_level.v \in 1..5

C10_Witness ==
    /\ Len(saveCalls) = 1
    /\ saveCalls[1].data.urgency_level # report.urgency_level

\* The step in which handleSave issues its update, and the update issued.
SaveIssued == Len(saveCalls') = Len(saveCalls) + 1
IssuedData == saveCalls'[Len(saveCalls')].data

\* C11: each of the five population counters of every record passed to the
\* update is a non-negative integer.
C11_CountersNonNegative ==
    \A i \in 1..Len(saveCalls) :
       \A f \in CounterFields :
          /\ saveCalls[i].data[f].t = "num"
          /\ saveCalls[i].data[f].v >= 0

NoDuplicates(l) == \A i, j \in 1..Len(l) : l[i] = l[j] => i = j

\* C12: help_categories is a set under toggling: the list in the form and in
\* every update has no duplicate tag; a click on a tag that is absent appends
\* it, a click on a tag that is present removes it, other tags keep their
\* order.
C12_CategoriesAreSet ==
    /\ [](NoDuplicates(currentCategories(formData)))
    /\ [](\A i \in 1..Len(saveCalls) :
             NoDuplicates(saveCalls[i].data.help_categories))
    /\ [][\A id \in HelpCategoryIds :
            categoryOnCheckedChange(id) =>
               LET old == currentCategories(formData)
                   new == currentCategories(formData')
               IN  IF Includes(old, id)
                   THEN /\ ~Includes(new, id)
                        /\ new = SelectSeq(old, LAMBDA c : c # id)
                   ELSE new = old \o <<id>>]_vars

C12_Witness ==
    /\ currentCategories(formData) = <<"water", "food">>
    /\ Len(saveCalls) = 1
    /\ saveCalls[1].data.help_categories = <<"water", "food">>

\* The comma-separated entries of a phone input, read left to right: cur is
\* the entry being read.
RECURSIVE EntriesOf(_, _)
EntriesOf(rest, cur) ==
    IF rest = <<>> THEN <<cur>>
    ELSE IF Head(rest) = ","
    THEN <<cur>> \o EntriesOf(Tail(rest), <<>>)
    ELSE EntriesOf(Tail(rest), Append(cur, Head(rest)))

\* The entries trimmed, the empty ones dropped, the rest formatted, in order.
RECURSIVE FormattedEntries(_)
FormattedEntries(entries) ==
    IF entries = <<>> THEN <<>>
    ELSE IF Trim(Head(entries)) = <<>>
    THEN FormattedEntries(Tail(entries))
    ELSE <<formatPhoneNumber(Trim(Head(entries)))>>
            \o FormattedEntries(Tail(entries))

\* A phone the formatter has been applied to.
IsFormatted(p) == \E q \in {RawPhone, FormattedPhone, OtherPhone,
                            OtherFormatted, NotAPhone} :
                     p = formatPhoneNumber(q)

\* The phone lists carried by a navigation.
CarriedReports ==
    IF location.path = "/select" THEN location.state.reports
    ELSE IF location.path = "/review" THEN <<location.state.extractedData>>
    ELSE <<>>

\* C13: the phone list of an update is the comma-separated entries of the
\* phone input, in order, trimmed, without the empty ones, each formatted;
\* every phone of every candidate carried by a navigation is formatted, and
\* a candidate without a phone list carries an empty one.
C13_PhonesFormatted ==
    /\ [][SaveIssued =>
             IssuedData.phone = FormattedEntries(EntriesOf(phoneInput, <<>>))
         ]_vars
    /\ [](\A i \in 1..Len(saveCalls) :
             \A k \in 1..Len(saveCalls[i].data.phone) :
                /\ IsFormatted(saveCalls[i].data.phone[k])
                /\ saveCalls[i].data.phone[k] \notin {RawPhone, OtherPhone})
    /\ [](\A k \in 1..Len(CarriedReports) :
             /\ "phone" \in DOMAIN CarriedReports[k]
             /\ \A j \in 1..Len(CarriedReports[k].phone) :
                   /\ IsFormatted(CarriedReports[k].phone[j])
                   /\ CarriedReports[k].phone[j] \notin {RawPhone, OtherPhone})
    /\ [][ExtractCompletes /\ location' # location =>
             LET sent == extractCalls[1].resp.reports
                 carried == IF location'.path = "/select"
                            THEN location'.state.reports
                            ELSE <<location'.state.extractedData>>
             IN  \A k \in 1..Len(carried) :
                    carried[k].phone =
                       IF "phone" \in DOMAIN sent[k]
                       THEN [j \in 1..Len(sent[k].phone) |->
                                formatPhoneNumber(sent[k].phone[j])]
                       ELSE <<>>]_vars

C13_Witness ==
    /\ Len(saveCalls) = 1
    /\ phoneInput = <<"081-111-1111", ",", "SP", "0822222222">>
    /\ saveCalls[1].data.phone = <<FormattedPhone, OtherFormatted>>

\* C14: the latitude and the longitude of an update are the number the form
\* holds, 0 included, and null when the form holds no number; the update is
\* issued whatever the form holds.
C14_CoordinatesParsed ==
    [][SaveIssued =>
          \A f \in CoordinateFields :
             IssuedData[f] = IF formData[f].t = "num" THEN formData[f]
                             ELSE JsNull]_vars

\* C15: the cleaning of a text is idempotent: the text a paste or an OCR
\* completion stages in an empty textarea is the cleaning of its input, and
\* cleaning it again gives the same text; the empty text cleans to the empty
\* text.
C15_NormalizerIdempotent ==
    /\ cleanedText(<<>>) = <<>>
    /\ [][rawMessage = <<>> /\ rawMessage' # <<>> /\ ~typed' /\ ~OcrCompletes =>
             /\ \E t \in PastedTexts : rawMessage' = cleanedText(t)
             /\ cleanedText(rawMessage') = rawMessage']_vars
    /\ [][OcrCompletes /\ rawMessage = <<>> /\ rawMessage' # <<>> =>
             /\ rawMessage' = cleanedText(Trim(ocrCalls[1].resp.text))
             /\ cleanedText(rawMessage') = rawMessage']_vars

C15_Witness ==
    /\ screen = "input"
    /\ ~typed
    /\ rawMessage = <<"a", "SP", "a">>
    /\ cleanedText(rawMessage) = rawMessage

\* The step in which handleSave resumes after the update has answered.
SaveCompletes == Len(saveCalls) = 1 /\ saveCalls' = <<>>

\* C16: when the update reports an error, the notification carries the
\* error's own message, onSuccess is not called and the dialog stays open;
\* onSuccess is called and the dialog is closed by handleSave only after an
\* update that reported no error.
C16_UpdateErrorSurfaced ==
    /\ [][SaveCompletes =>
             LET r == saveCalls[1].resp
             IN  /\ r.kind = "error" =>
                       /\ toast'.level = "error"
                       /\ toast'.description = r.message
                       /\ successCalls' = successCalls
                       /\ open' = open
                 /\ (successCalls' # successCalls \/ open' # open) =>
                       r.kind = "ok"]_vars
    /\ [][successCalls' # successCalls => SaveCompletes]_vars

====
